---- MODULE Spec2Model ----
(***************************************************************************)
(* Lifecycle of ColaboratoryApp (colaboratory.py): port allocation with    *)
(* retry, signal handling with a confirmation dialog, the server info file *)
(* and the shutdown sequence around the tornado serving loop.              *)
(***************************************************************************)
EXTENDS Integers, Sequences, FiniteSets, TLC

VARIABLES
    config,       \* the configured traits: port, port_retries, certfile, keyfile, open_browser, win
    port,         \* self.port
    ssl_options,  \* the ssl_options local of init_webapp
    success,      \* the success local of init_webapp
    attempts,     \* number of candidates taken from random_ports so far (= listen calls)
    cand,         \* the candidate of the latest listen call
    n_inuse,      \* listen calls that failed with EADDRINUSE
    n_eacces,     \* listen calls that failed with EACCES
    n_other,      \* listen calls that failed with any other socket.error
    pc,           \* position of the main thread
    sigint,       \* handler registered for SIGINT
    sigterm,      \* handler registered for SIGTERM
    siginfo,      \* handler registered for SIGUSR1 / SIGINFO
    dialogs,      \* _confirm_exit threads blocked in select
    callbacks,    \* _restore_sigint_handler callbacks queued on the IOLoop
    stopped,      \* IOLoop.stop() has been called
    dialog_read,  \* what each _confirm_exit thread past its select got: a line, or the timeout
    ntimeout,     \* _confirm_exit threads whose select timed out
    info_file,    \* the nbserver-<pid>.json file: absent, or the record written
    unlink_err,   \* what os.unlink answered in remove_server_info_file, "none" before
    events,       \* the lifecycle steps executed so far, in order
    exit_status,  \* how the process ended, "running" while it has not
    nint,         \* SIGINT deliveries so far
    nterm,        \* SIGTERM deliveries so far
    ninfo         \* SIGUSR1 deliveries so far

vars == <<config, port, ssl_options, success, attempts, cand, n_inuse, n_eacces, n_other,
          pc, sigint, sigterm, siginfo, dialogs, callbacks, stopped, dialog_read, ntimeout,
          info_file, unlink_err, events, exit_status, nint, nterm, ninfo>>

bindvars == <<port, ssl_options, success, attempts, cand, n_inuse, n_eacces, n_other>>
sigvars  == <<sigint, sigterm, siginfo>>
loopvars == <<dialogs, callbacks, stopped, dialog_read, ntimeout>>
filevars == <<info_file, unlink_err>>
mainvars == <<pc, events, exit_status>>
counters == <<nint, nterm, ninfo>>

----------------------------------------------------------------------------
\* Bounds of the model

MaxRetries    == 5    \* largest configured port_retries
MaxInterrupts == 2    \* SIGINT deliveries
MaxTerminates == 1    \* SIGTERM deliveries
MaxInfos      == 1    \* SIGUSR1 deliveries

Min(a, b) == IF a < b THEN a ELSE b
Max(a, b) == IF a > b THEN a ELSE b

----------------------------------------------------------------------------
\* random_ports(port, n): a generator, consumed one candidate per listen call

SequentialPorts == 5

\* random_ports that stops after the sequential candidates
random_ports_len_prefix(n) == Max(0, Min(SequentialPorts, n))

\* random_ports without the max(1, ...) clamp
random_ports_at_unclamped(p, n, i) ==
    IF i < Min(SequentialPorts, n)
    THEN {p + i}
    ELSE {p + r : r \in (-2 * n)..(2 * n)}

\* the number of candidates the generator yields
random_ports_len(n) == Max(0, Min(SequentialPorts, n)) + Max(0, n - SequentialPorts)

\* the values the i-th candidate (i = 0, 1, ...) can take
random_ports_at(p, n, i) ==
    IF i < Min(SequentialPorts, n)
    THEN {p + i}
    ELSE {Max(1, p + r) : r \in (-2 * n)..(2 * n)}

----------------------------------------------------------------------------
\* server_info(), _url(), connection_url

ip == "127.0.0.1"

url(host) == [proto |-> IF config.certfile THEN "https" ELSE "http",
              host  |-> host,
              port  |-> port]

connection_url == url(IF ip # "" THEN ip ELSE "localhost")

server_info == [url      |-> connection_url,
                hostname |-> IF ip # "" THEN ip ELSE "localhost",
                port     |-> port,
                secure   |-> config.certfile]

----------------------------------------------------------------------------
\* Configurations and the state after construction

\* every platform and TLS/browser setting, with a small retry budget
LifecycleConfigs ==
    [port         : {3},
     port_retries : {0, 1},
     certfile     : BOOLEAN,      \* a certificate path is configured
     keyfile      : BOOLEAN,      \* a key path is configured
     open_browser : BOOLEAN,
     win          : BOOLEAN]      \* sys.platform.startswith('win')

\* every shape of retry budget: negative, empty, inside and past the sequential prefix;
\* init_webapp reads neither the platform nor open_browser
AllocConfigs ==
    [port         : {0},
     port_retries : {-2, -1, 2, MaxRetries},
     certfile     : {FALSE},
     keyfile      : {FALSE},
     open_browser : {FALSE},
     win          : {TRUE}]

Configs == LifecycleConfigs \cup AllocConfigs

InitFrom(c) ==
    /\ config = c
    /\ port = c.port
    /\ ssl_options = "unset"
    /\ success = "None"
    /\ attempts = 0
    /\ cand = c.port
    /\ n_inuse = 0
    /\ n_eacces = 0
    /\ n_other = 0
    /\ pc = "init_webapp"
    /\ sigint = "default"
    /\ sigterm = "default"
    /\ siginfo = IF c.win THEN "absent" ELSE "default"
    /\ dialogs = 0
    /\ callbacks = 0
    /\ stopped = FALSE
    /\ dialog_read = <<>>
    /\ ntimeout = 0
    /\ info_file = <<>>
    /\ unlink_err = "none"
    /\ events = <<>>
    /\ exit_status = "running"
    /\ nint = 0
    /\ nterm = 0
    /\ ninfo = 0

Init == \E c \in Configs : InitFrom(c)

alive == exit_status = "running"

\* an exception that nothing catches ends the process with a non-zero status
raise == /\ pc' = "raised"
         /\ exit_status' = "nonzero"
         /\ UNCHANGED events

----------------------------------------------------------------------------
\* init_webapp: ssl options, then one listen call per candidate

ssl_options_of(certfile, keyfile) ==
    IF certfile
    THEN IF keyfile THEN "cert_key" ELSE "cert"
    ELSE "None"

InitWebapp ==
    /\ alive /\ pc = "init_webapp"
    /\ ssl_options' = ssl_options_of(config.certfile, config.keyfile)
    /\ pc' = "listen"
    /\ UNCHANGED <<config, port, success, attempts, cand, n_inuse, n_eacces, n_other,
                   events, exit_status, filevars>>
    /\ UNCHANGED <<sigvars, loopvars, counters>>

ListenOutcomes == {"ok", "EADDRINUSE", "EACCES", "other"}

\* an EADDRINUSE branch that assigns self.port before it continues
listen_inuse_records ==
    /\ n_inuse' = n_inuse + 1
    /\ port' = cand'
    /\ UNCHANGED <<success, n_eacces, n_other, mainvars>>

\* errno.EADDRINUSE: log, continue
listen_inuse ==
    /\ n_inuse' = n_inuse + 1
    /\ UNCHANGED <<port, success, n_eacces, n_other, mainvars>>

\* errno.EACCES: warn, continue
listen_eacces ==
    /\ n_eacces' = n_eacces + 1
    /\ UNCHANGED <<port, success, n_inuse, n_other, mainvars>>

\* any other socket.error handled like the retryable ones
listen_other_continue ==
    /\ n_other' = n_other + 1
    /\ UNCHANGED <<port, success, n_inuse, n_eacces, mainvars>>

\* any other socket.error: re-raised out of init_webapp and initialize
listen_other ==
    /\ n_other' = n_other + 1
    /\ raise
    /\ UNCHANGED <<port, success, n_inuse, n_eacces>>

\* the break without the assignment to self.port
listen_ok_unrecorded ==
    /\ port' = port
    /\ success' = "True"
    /\ pc' = "init_signal"
    /\ events' = Append(events, "bind")
    /\ UNCHANGED <<n_inuse, n_eacces, n_other, exit_status>>

\* no exception: record the port, break
listen_ok ==
    /\ port' = cand'
    /\ success' = "True"
    /\ pc' = "init_signal"
    /\ events' = Append(events, "bind")
    /\ UNCHANGED <<n_inuse, n_eacces, n_other, exit_status>>

Listen ==
    /\ alive /\ pc = "listen"
    /\ attempts < random_ports_len(config.port_retries + 1)
    /\ \E c \in random_ports_at(config.port, config.port_retries + 1, attempts) :
          cand' = c
    /\ attempts' = attempts + 1
    /\ \E outcome \in ListenOutcomes :
          CASE outcome = "EADDRINUSE" -> listen_inuse
            [] outcome = "EACCES"     -> listen_eacces
            [] outcome = "other"      -> listen_other
            [] outcome = "ok"         -> listen_ok
    /\ UNCHANGED <<config, ssl_options, filevars>>
    /\ UNCHANGED <<sigvars, loopvars, counters>>

\* the critical log without the self.exit(1)
no_port_continue ==
    /\ pc' = "init_signal"
    /\ UNCHANGED <<events, exit_status>>

\* the generator is exhausted and success is still None: critical log, self.exit(1)
no_port ==
    /\ pc' = "exited"
    /\ exit_status' = "nonzero"
    /\ UNCHANGED events

NoPort ==
    /\ alive /\ pc = "listen"
    /\ attempts = random_ports_len(config.port_retries + 1)
    /\ success # "True"
    /\ no_port
    /\ UNCHANGED <<config, filevars>>
    /\ UNCHANGED <<bindvars, sigvars, loopvars, counters>>

----------------------------------------------------------------------------
\* init_signal and the signal handlers

\* init_signal without the SIGTERM registration
InitSignal_no_sigterm ==
    /\ alive /\ pc = "init_signal"
    /\ sigint' = IF ~config.win THEN "handle_sigint" ELSE sigint
    /\ siginfo' = IF siginfo # "absent" THEN "signal_info" ELSE siginfo
    /\ pc' = "write_info"
    /\ UNCHANGED <<config, filevars, events, exit_status, sigterm>>
    /\ UNCHANGED <<bindvars, loopvars, counters>>

\* init_signal without the SIGINT registration
InitSignal_no_sigint ==
    /\ alive /\ pc = "init_signal"
    /\ sigterm' = "signal_stop"
    /\ siginfo' = IF siginfo # "absent" THEN "signal_info" ELSE siginfo
    /\ pc' = "write_info"
    /\ UNCHANGED <<config, filevars, events, exit_status, sigint>>
    /\ UNCHANGED <<bindvars, loopvars, counters>>

InitSignal ==
    /\ alive /\ pc = "init_signal"
    /\ sigint' = IF ~config.win THEN "handle_sigint" ELSE sigint
    /\ sigterm' = "signal_stop"
    /\ siginfo' = IF siginfo # "absent" THEN "signal_info" ELSE siginfo
    /\ pc' = "write_info"
    /\ UNCHANGED <<config, filevars, events, exit_status>>
    /\ UNCHANGED <<bindvars, loopvars, counters>>

\* _handle_sigint that also stops the loop
handle_sigint_stops ==
    /\ sigint' = "signal_stop"
    /\ dialogs' = dialogs + 1
    /\ stopped' = TRUE
    /\ UNCHANGED <<config, filevars, sigterm, siginfo, callbacks, dialog_read, ntimeout>>
    /\ UNCHANGED <<bindvars, mainvars>>

\* _handle_sigint that leaves itself registered for SIGINT
handle_sigint_keep ==
    /\ dialogs' = dialogs + 1
    /\ UNCHANGED <<config, filevars, sigvars, callbacks, stopped, dialog_read, ntimeout>>
    /\ UNCHANGED <<bindvars, mainvars>>

\* _handle_sigint: register _signal_stop for SIGINT, start a _confirm_exit thread
handle_sigint ==
    /\ sigint' = "signal_stop"
    /\ dialogs' = dialogs + 1
    /\ UNCHANGED <<config, filevars, sigterm, siginfo, callbacks, stopped, dialog_read, ntimeout>>
    /\ UNCHANGED <<bindvars, mainvars>>

\* _signal_stop that logs and does not stop the loop
signal_stop_lost ==
    /\ UNCHANGED <<config, filevars>>
    /\ UNCHANGED <<bindvars, sigvars, loopvars, mainvars>>

\* _signal_stop: IOLoop.instance().stop()
signal_stop ==
    /\ stopped' = TRUE
    /\ UNCHANGED <<config, filevars, dialogs, callbacks, dialog_read, ntimeout>>
    /\ UNCHANGED <<bindvars, sigvars, mainvars>>

\* _signal_info that stops the loop like _signal_stop
signal_info_stops ==
    /\ stopped' = TRUE
    /\ UNCHANGED <<config, filevars, dialogs, callbacks, dialog_read, ntimeout>>
    /\ UNCHANGED <<bindvars, sigvars, mainvars>>

\* _signal_info: print(self.notebook_info())
signal_info ==
    /\ UNCHANGED <<config, filevars>>
    /\ UNCHANGED <<bindvars, sigvars, loopvars, mainvars>>

\* SIGINT with no handler registered: KeyboardInterrupt in the main thread,
\* caught only by the except clause around IOLoop.start()
KeyboardInterrupt ==
    /\ IF pc = "ioloop"
       THEN /\ pc' = "cleanup_kernels"
            /\ UNCHANGED <<events, exit_status>>
       ELSE raise
    /\ UNCHANGED <<config, filevars>>
    /\ UNCHANGED <<bindvars, sigvars, loopvars>>

\* a signal whose default action is still in place terminates the process
killed ==
    /\ pc' = "killed"
    /\ exit_status' = "killed"
    /\ UNCHANGED <<config, filevars, events>>
    /\ UNCHANGED <<bindvars, sigvars, loopvars>>

SigInt ==
    /\ alive /\ nint < MaxInterrupts
    /\ nint' = nint + 1
    /\ UNCHANGED <<nterm, ninfo>>
    /\ CASE sigint = "default"       -> KeyboardInterrupt
         [] sigint = "handle_sigint" -> handle_sigint
         [] sigint = "signal_stop"   -> signal_stop

SigTerm ==
    /\ alive /\ nterm < MaxTerminates
    /\ nterm' = nterm + 1
    /\ UNCHANGED <<nint, ninfo>>
    /\ CASE sigterm = "default"     -> killed
         [] sigterm = "signal_stop" -> signal_stop

SigInfo ==
    /\ alive /\ ninfo < MaxInfos
    /\ siginfo # "absent"
    /\ ninfo' = ninfo + 1
    /\ UNCHANGED <<nint, nterm>>
    /\ CASE siginfo = "default"     -> killed
         [] siginfo = "signal_info" -> signal_info

----------------------------------------------------------------------------
\* _confirm_exit, run by a daemon thread, and _restore_sigint_handler

lower(c) == CASE c = "Y" -> "y"
              [] c = "N" -> "n"
              [] OTHER   -> c

\* the test without its second half
confirms_prefix_only(line) ==
    /\ Len(line) > 0
    /\ lower(line[1]) = "y"

\* line.lower().startswith('y') and 'n' not in line.lower()
confirms(line) ==
    /\ Len(line) > 0
    /\ lower(line[1]) = "y"
    /\ \A i \in 1..Len(line) : lower(line[i]) # "n"

Lines == { <<"y", "\n">>, <<"Y", "e", "s", "\n">>, <<"Y", "N", "\n">>,
           <<"n", "\n">>, <<"o", "y", "\n">>, <<"\n">> }

Reads == {[kind |-> "timeout", line |-> <<>>]} \cup {[kind |-> "line", line |-> l] : l \in Lines}

\* select.select([sys.stdin], [], [], 5), and readline when stdin is readable
DialogSelect ==
    /\ alive /\ dialogs > 0
    /\ dialogs' = dialogs - 1
    /\ \E r \in Reads :
          /\ dialog_read' = Append(dialog_read, r)
          /\ ntimeout' = IF r.kind = "timeout" THEN ntimeout + 1 ELSE ntimeout
    /\ UNCHANGED <<config, filevars, callbacks, stopped>>
    /\ UNCHANGED <<bindvars, sigvars, mainvars, counters>>

\* _confirm_exit that returns on a decline without IOLoop.add_callback
confirm_exit_no_restore(r) ==
    IF r.kind = "line" /\ confirms(r.line)
    THEN /\ stopped' = TRUE
         /\ UNCHANGED callbacks
    ELSE UNCHANGED <<callbacks, stopped>>

\* the rest of _confirm_exit: stop the loop, or queue the restore callback
confirm_exit(r) ==
    IF r.kind = "line" /\ confirms(r.line)
    THEN /\ stopped' = TRUE
         /\ UNCHANGED callbacks
    ELSE /\ callbacks' = callbacks + 1
         /\ UNCHANGED stopped

\* _confirm_exit that calls signal.signal itself on a decline
DialogDecide_direct ==
    /\ alive /\ dialog_read # <<>>
    /\ IF Head(dialog_read).kind = "line" /\ confirms(Head(dialog_read).line)
       THEN /\ stopped' = TRUE
            /\ UNCHANGED sigint
       ELSE /\ sigint' = "handle_sigint"
            /\ UNCHANGED stopped
    /\ dialog_read' = Tail(dialog_read)
    /\ UNCHANGED <<config, filevars, dialogs, ntimeout, callbacks, sigterm, siginfo>>
    /\ UNCHANGED <<bindvars, mainvars, counters>>

DialogDecide ==
    /\ alive /\ dialog_read # <<>>
    /\ confirm_exit(Head(dialog_read))
    /\ dialog_read' = Tail(dialog_read)
    /\ UNCHANGED <<config, filevars, dialogs, ntimeout>>
    /\ UNCHANGED <<bindvars, sigvars, mainvars, counters>>

\* _restore_sigint_handler
restore_sigint_handler ==
    sigint' = "handle_sigint"

\* the IOLoop runs a queued callback in the main thread
RunCallback ==
    /\ alive /\ pc = "ioloop"
    /\ callbacks > 0
    /\ callbacks' = callbacks - 1
    /\ restore_sigint_handler
    /\ UNCHANGED <<config, filevars, sigterm, siginfo, dialogs, stopped, dialog_read, ntimeout>>
    /\ UNCHANGED <<bindvars, mainvars, counters>>

----------------------------------------------------------------------------
\* start(): info file, browser, serving loop, shutdown sequence

\* start() that goes on to the browser and the loop without the info file
write_ok_skipped ==
    /\ pc' = "open_browser"
    /\ UNCHANGED <<info_file, events, exit_status>>

\* write_server_info_file returns: the file holds server_info()
write_ok ==
    /\ info_file' = <<server_info>>
    /\ events' = Append(events, "write")
    /\ pc' = "open_browser"
    /\ UNCHANGED exit_status

\* start() that catches the error of write_server_info_file and goes on
write_failed_swallowed ==
    /\ events' = Append(events, "write_error")
    /\ pc' = "open_browser"
    /\ UNCHANGED <<info_file, exit_status>>

\* write_server_info_file raising inside the try whose finally shuts down
write_failed_cleanup ==
    /\ events' = Append(events, "write_error")
    /\ pc' = "cleanup_kernels"
    /\ UNCHANGED <<info_file, exit_status>>

\* write_server_info_file raises: nothing in start() catches it
write_failed ==
    /\ events' = Append(events, "write_error")
    /\ pc' = "raised"
    /\ exit_status' = "nonzero"
    /\ UNCHANGED info_file

\* write_server_info_file: open(info_file, 'w') and json.dump(server_info())
WriteInfo ==
    /\ alive /\ pc = "write_info"
    /\ \E ok \in BOOLEAN :
          IF ok THEN write_ok ELSE write_failed
    /\ UNCHANGED <<config, unlink_err>>
    /\ UNCHANGED <<bindvars, sigvars, loopvars, counters>>

\* if self.open_browser: webbrowser.get(), and a thread that opens connection_url
OpenBrowser ==
    /\ alive /\ pc = "open_browser"
    /\ \E found \in BOOLEAN :
          events' = IF config.open_browser /\ found
                    THEN Append(events, "browser")
                    ELSE events
    /\ pc' = "ioloop_start"
    /\ UNCHANGED <<config, filevars, exit_status>>
    /\ UNCHANGED <<bindvars, sigvars, loopvars, counters>>

\* ioloop.IOLoop.instance().start()
IOLoopStart ==
    /\ alive /\ pc = "ioloop_start"
    /\ pc' = "ioloop"
    /\ events' = Append(events, "loop")
    /\ UNCHANGED <<config, filevars, exit_status>>
    /\ UNCHANGED <<bindvars, sigvars, loopvars, counters>>

\* start() returns once stop() has been called
IOLoopReturn ==
    /\ alive /\ pc = "ioloop"
    /\ stopped
    /\ pc' = "cleanup_kernels"
    /\ UNCHANGED <<config, filevars, events, exit_status>>
    /\ UNCHANGED <<bindvars, sigvars, loopvars, counters>>

\* cleanup_kernels: self.kernel_manager.shutdown_all(), which may raise
cleanup_kernels(ok) ==
    IF ok
    THEN /\ events' = Append(events, "shutdown_all")
         /\ pc' = "remove_info"
         /\ UNCHANGED exit_status
    ELSE /\ events' = events \o <<"shutdown_all", "shutdown_error">>
         /\ pc' = "raised"
         /\ exit_status' = "nonzero"

CleanupKernels ==
    /\ alive /\ pc = "cleanup_kernels"
    /\ \E ok \in BOOLEAN : cleanup_kernels(ok)
    /\ UNCHANGED <<config, filevars>>
    /\ UNCHANGED <<bindvars, sigvars, loopvars, counters>>

\* os.unlink(info_file): what it can answer
unlink_outcomes(file) == IF file = <<>> THEN {"ENOENT", "EACCES"} ELSE {"ok", "EACCES"}

\* remove_server_info_file that re-raises every OSError
remove_server_info_file_strict(file, err) ==
    [file   |-> IF err = "ok" THEN <<>> ELSE file,
     raised |-> err # "ok"]

\* remove_server_info_file: ENOENT is ignored, any other OSError is re-raised
remove_server_info_file(file, err) ==
    [file   |-> IF err = "ok" THEN <<>> ELSE file,
     raised |-> err # "ok" /\ err # "ENOENT"]

RemoveInfo ==
    /\ alive /\ pc = "remove_info"
    /\ \E err \in unlink_outcomes(info_file) :
          LET r == remove_server_info_file(info_file, err) IN
          /\ unlink_err' = err
          /\ info_file' = r.file
          /\ events' = Append(events, "remove")
          /\ IF r.raised
             THEN /\ pc' = "raised"
                  /\ exit_status' = "nonzero"
             ELSE /\ pc' = "done"
                  /\ exit_status' = "zero"
    /\ UNCHANGED config
    /\ UNCHANGED <<bindvars, sigvars, loopvars, counters>>

\* the file is deleted by someone else while the server runs
ExternalUnlink ==
    /\ alive /\ pc = "ioloop"
    /\ info_file # <<>>
    /\ info_file' = <<>>
    /\ UNCHANGED <<config, unlink_err>>
    /\ UNCHANGED <<bindvars, sigvars, loopvars, mainvars, counters>>

----------------------------------------------------------------------------

Next ==
    \/ InitWebapp
    \/ Listen
    \/ NoPort
    \/ InitSignal
    \/ SigInt
    \/ SigTerm
    \/ SigInfo
    \/ DialogSelect
    \/ DialogDecide
    \/ RunCallback
    \/ WriteInfo
    \/ OpenBrowser
    \/ IOLoopStart
    \/ IOLoopReturn
    \/ CleanupKernels
    \/ RemoveInfo
    \/ ExternalUnlink

Spec == Init /\ [][Next]_vars

\* the dialog thread runs on, and the IOLoop runs the callbacks queued on it
FairSpec == Spec /\ WF_vars(DialogDecide) /\ WF_vars(RunCallback)

----------------------------------------------------------------------------
\* Properties

Has(e) == \E i \in DOMAIN events : events[i] = e
Count(e) == Cardinality({i \in DOMAIN events : events[i] = e})
Before(a, b) == \A i, j \in DOMAIN events : (events[i] = a /\ events[j] = b) => i < j

\* the number of candidates init_webapp asks random_ports for, never negative
Generated == Max(0, config.port_retries + 1)

\* C1: once the serving loop has been entered and the process has ended, whatever
\* stopped it, shutdown_all has run exactly once, the removal of the info file has
\* run exactly once, and shutdown_all ran first.
C1_ShutdownExactlyOnce ==
    (Has("loop") /\ ~alive) =>
        /\ Count("shutdown_all") = 1
        /\ Count("remove") = 1
        /\ Before("shutdown_all", "remove")

\* C2: a SIGINT delivered while _signal_stop is the SIGINT handler (the state armed
\* by a first SIGINT) stops the loop in that very step, whatever the dialog is doing.
C2_SecondInterruptStops ==
    [][(nint' = nint + 1 /\ sigint = "signal_stop") =>
          (stopped' /\ dialogs' = dialogs /\ dialog_read' = dialog_read)]_vars

C2_Witness ==
    /\ nint = 2 /\ nterm = 0
    /\ stopped
    /\ dialogs = 1 /\ dialog_read = <<>> /\ callbacks = 0
    /\ pc = "ioloop"

\* C3: a dialog whose select timed out does not stop the loop and queues the restore
\* callback; while the loop serves and no stop is requested, _handle_sigint becomes
\* the SIGINT handler again; and a SIGINT handled by _handle_sigint starts a dialog
\* and does not stop the loop.
C3_TimeoutRestoresNormal ==
    /\ [][(dialog_read # <<>> /\ Head(dialog_read).kind = "timeout"
              /\ dialog_read' = Tail(dialog_read)) =>
             (stopped' = stopped /\ callbacks' = callbacks + 1 /\ sigint' = sigint)]_vars
    /\ ((dialog_read # <<>> /\ Head(dialog_read).kind = "timeout"
              /\ pc = "ioloop" /\ ~stopped)
           ~> (sigint = "handle_sigint" \/ stopped))
    /\ [][(nint' = nint + 1 /\ sigint = "handle_sigint") =>
             (dialogs' = dialogs + 1 /\ stopped' = stopped)]_vars

C3_Witness ==
    /\ nint = 2 /\ nterm = 0 /\ ntimeout = 1
    /\ pc = "ioloop" /\ ~stopped
    /\ dialogs = 1 /\ dialog_read = <<>> /\ callbacks = 0
    /\ sigint = "signal_stop"

\* C4: when a listen call succeeds after k retryable failures, k + 1 calls were made,
\* the loop over the candidates is left, and self.port is the candidate that bound:
\* config.port + k while the candidates are sequential.
C4_BindAfterFailures ==
    success = "True" =>
        /\ attempts = n_inuse + n_eacces + 1
        /\ n_other = 0
        /\ pc # "listen"
        /\ port = cand
        /\ (attempts <= SequentialPorts => port = config.port + attempts - 1)

C4_Witness ==
    /\ success = "True"
    /\ n_inuse = 3 /\ n_eacces = 0
    /\ attempts = 4
    /\ port = config.port + 3
    /\ pc = "init_signal"

\* C5 as stated: when every candidate failed with EADDRINUSE or EACCES, port_retries + 1
\* listen calls were made, the process exits non-zero, the loop is never entered and
\* the info file is never written.
C5_ExhaustedAsStated ==
    /\ pc = "exited" =>
          /\ attempts = config.port_retries + 1
          /\ n_inuse + n_eacces = attempts
          /\ exit_status = "nonzero"
    /\ (n_inuse + n_eacces = config.port_retries + 1) =>
          /\ ~Has("bind") /\ ~Has("write") /\ ~Has("loop")
          /\ info_file = <<>>

\* C5 amended: when every generated candidate failed with EADDRINUSE or EACCES, each of
\* the max(0, port_retries + 1) candidates was tried once, self.exit(1) follows, the
\* loop is never entered and the info file is never written.
C5_ExhaustedIsFatal ==
    /\ pc = "exited" =>
          /\ attempts = Generated
          /\ n_inuse + n_eacces = attempts
          /\ exit_status = "nonzero"
    /\ (n_inuse + n_eacces = Generated) =>
          /\ success # "True"
          /\ ~Has("bind") /\ ~Has("write") /\ ~Has("loop")
          /\ info_file = <<>>
          /\ pc \in {"init_webapp", "listen", "exited", "raised", "killed"}
          /\ exit_status # "zero"

C5_Witness ==
    /\ pc = "exited"
    /\ exit_status = "nonzero"
    /\ config.port_retries = 2
    /\ n_inuse = 2 /\ n_eacces = 1
    /\ attempts = 3

\* C6 as stated: for every port_retries n the generator yields n + 1 candidates, the
\* first min(5, n + 1) of them config.port, config.port + 1, ...
C6_CandidatesAsStated ==
    /\ pc = "exited" => attempts = config.port_retries + 1
    /\ (1 <= attempts /\ attempts <= Min(SequentialPorts, config.port_retries + 1)) =>
          cand = config.port + attempts - 1

\* C6 amended: the generator yields max(0, n + 1) candidates (none for n < -1), the
\* first min(5, n + 1) of them config.port, config.port + 1, ...
C6_CandidateCount ==
    /\ attempts <= Generated
    /\ pc = "exited" => attempts = Generated
    /\ (1 <= attempts /\ attempts <= Min(SequentialPorts, config.port_retries + 1)) =>
          cand = config.port + attempts - 1

C6_Witness ==
    /\ pc = "exited"
    /\ config.port_retries = MaxRetries
    /\ attempts = MaxRetries + 1

\* C7 as stated: a candidate after the sequential ones lies between
\* max(1, port - 2 * port_retries) and max(1, port + 2 * port_retries), and no
\* candidate is below 1.
C7_RangeAsStated ==
    /\ attempts > SequentialPorts =>
          /\ cand >= Max(1, config.port - 2 * config.port_retries)
          /\ cand <= Max(1, config.port + 2 * config.port_retries)
    /\ attempts >= 1 => cand >= 1

\* C7 amended: a candidate after the sequential ones lies between
\* max(1, port - 2 * (port_retries + 1)) and max(1, port + 2 * (port_retries + 1)),
\* and is never below 1.
C7_RandomRange ==
    attempts > SequentialPorts =>
        /\ cand >= Max(1, config.port - 2 * (config.port_retries + 1))
        /\ cand <= Max(1, config.port + 2 * (config.port_retries + 1))
        /\ cand >= 1

C7_Witness ==
    /\ attempts = SequentialPorts + 1
    /\ cand = config.port + 2 * (config.port_retries + 1)
    /\ cand > Max(1, config.port + 2 * config.port_retries)

\* C8: after a listen call failed with another socket.error no further call is made,
\* the process ends with the exception, self.port keeps the configured value and the
\* loop is never entered.
C8_OtherErrorAborts ==
    n_other > 0 =>
        /\ n_other = 1
        /\ attempts = n_inuse + n_eacces + 1
        /\ pc = "raised"
        /\ exit_status = "nonzero"
        /\ success # "True"
        /\ port = config.port
        /\ ~Has("bind") /\ ~Has("write") /\ ~Has("loop")

C8_Witness ==
    /\ n_other = 1
    /\ n_inuse = 1
    /\ attempts = 2
    /\ attempts < Generated
    /\ pc = "raised"

\* C9: with a key file and no certificate file configured, no listen call is made and
\* the loop is never entered.
C9_KeyWithoutCertRejected ==
    (config.keyfile /\ ~config.certfile) =>
        /\ attempts = 0
        /\ ~Has("bind")
        /\ ~Has("loop")

\* C10: removing a written info file deletes it, removing it again answers without an
\* exception and leaves it absent, and in start() an ENOENT from os.unlink ends the
\* run normally while any other error ends it with the exception.
C10_RemoveIdempotent ==
    /\ info_file # <<>> =>
          LET first  == remove_server_info_file(info_file, "ok")
              second == remove_server_info_file(first.file, "ENOENT")
          IN  /\ first.file = <<>> /\ ~first.raised
              /\ "ENOENT" \in unlink_outcomes(first.file)
              /\ second.file = <<>> /\ ~second.raised
    /\ unlink_err = "ok"     => (info_file = <<>> /\ pc = "done")
    /\ unlink_err = "ENOENT" => (info_file = <<>> /\ pc = "done" /\ exit_status = "zero")
    /\ unlink_err = "EACCES" => (pc = "raised" /\ exit_status = "nonzero")

C10_Witness ==
    /\ Has("write")
    /\ unlink_err = "ENOENT"
    /\ info_file = <<>>
    /\ pc = "done"

\* C11: when shutdown_all has raised and the process has ended, the removal of the
\* info file has been attempted.
C11_RemovalDespiteShutdownError ==
    (Has("shutdown_error") /\ ~alive) => Has("remove")

\* pending _confirm_exit dialogs: blocked in select, or past it and not yet decided
Pending == dialogs + Len(dialog_read)

\* C12: in both SIGINT states _signal_stop is the SIGTERM handler; a SIGTERM it handles
\* stops the loop in that step, starts no dialog and leaves the SIGINT handler alone;
\* and once registered it stays registered.
C12_TerminateAlwaysStops ==
    /\ [](sigint \in {"handle_sigint", "signal_stop"} => sigterm = "signal_stop")
    /\ [][(nterm' = nterm + 1 /\ sigterm = "signal_stop") =>
             (stopped' /\ dialogs' = dialogs /\ dialog_read' = dialog_read
                /\ sigint' = sigint /\ pc' = pc)]_vars
    /\ [][sigterm = "signal_stop" => sigterm' = "signal_stop"]_vars

C12_Witness ==
    /\ nterm = 1 /\ nint = 1
    /\ sigint = "signal_stop"
    /\ stopped
    /\ dialogs = 1 /\ dialog_read = <<>>
    /\ pc = "ioloop"

\* C13: a SIGINT handled by _handle_sigint registers _signal_stop, starts one dialog
\* and stops nothing; the loop is asked to stop only by a SIGINT handled by
\* _signal_stop, by a SIGTERM, or by a dialog that read a confirming line.
C13_FirstInterruptArms ==
    /\ [][(nint' = nint + 1 /\ sigint = "handle_sigint") =>
             (sigint' = "signal_stop" /\ dialogs' = dialogs + 1
                /\ stopped' = stopped /\ pc' = pc /\ callbacks' = callbacks)]_vars
    /\ [][(~stopped /\ stopped') =>
             \/ (nint' = nint + 1 /\ sigint = "signal_stop")
             \/ nterm' = nterm + 1
             \/ (dialog_read # <<>> /\ dialog_read' = Tail(dialog_read)
                   /\ Head(dialog_read).kind = "line")]_vars

C13_Witness ==
    /\ nint = 1 /\ nterm = 0
    /\ sigint = "signal_stop"
    /\ dialogs = 1 /\ dialog_read = <<>>
    /\ ~stopped
    /\ pc = "ioloop"

\* C14: at most one dialog is pending, and a SIGINT delivered while one is pending
\* starts no dialog and stops the loop.
C14_OneDialog ==
    /\ [](Pending <= 1)
    /\ [][(nint' = nint + 1 /\ Pending > 0) =>
             (dialogs' = dialogs /\ dialog_read' = dialog_read /\ stopped')]_vars

C14_Witness ==
    /\ nint = 2 /\ nterm = 0
    /\ dialogs = 0 /\ Len(dialog_read) = 1
    /\ stopped
    /\ sigint = "signal_stop"

\* a line that starts with y or Y and holds no n or N
Affirmative(line) ==
    /\ Len(line) >= 1
    /\ line[1] \in {"y", "Y"}
    /\ \A i \in DOMAIN line : line[i] \notin {"n", "N"}

\* C15: a dialog stops the loop exactly when it read a line that starts with y or Y
\* and holds no n or N; on any other line and on the timeout it stops nothing and
\* queues the restore callback.
C15_ConfirmExactly ==
    [][(dialog_read # <<>> /\ dialog_read' = Tail(dialog_read)) =>
          IF Head(dialog_read).kind = "line" /\ Affirmative(Head(dialog_read).line)
          THEN stopped' /\ callbacks' = callbacks
          ELSE stopped' = stopped /\ callbacks' = callbacks + 1]_vars

C15_Witness ==
    /\ nint = 1 /\ nterm = 0
    /\ stopped
    /\ dialogs = 0 /\ dialog_read = <<>> /\ callbacks = 0
    /\ pc = "ioloop"

\* C16: a SIGUSR1 handled by _signal_info changes nothing but the delivery count, and
\* where the signal does not exist init_signal still goes on to start().
C16_StatusChangesNothing ==
    /\ [][(ninfo' = ninfo + 1 /\ siginfo = "signal_info") =>
             UNCHANGED <<config, bindvars, sigvars, loopvars, filevars, mainvars>>]_vars
    /\ [][(pc = "init_signal" /\ siginfo = "absent" /\ nint' = nint /\ nterm' = nterm
              /\ pc' # pc) =>
             (pc' = "write_info" /\ siginfo' = "absent" /\ alive')]_vars

C16_Witness ==
    /\ ninfo = 1
    /\ siginfo = "signal_info"
    /\ alive /\ ~stopped
    /\ pc = "ioloop"
    /\ dialogs = 1

\* C17: the startup events come in the order bind, write, browser (if any), loop:
\* no write without an earlier successful bind, no loop without an earlier write,
\* a browser launch only between the two; and a written file means a bound port.
C17_StartupOrder ==
    /\ Has("write") => (Has("bind") /\ Before("bind", "write"))
    /\ Has("browser") => (Has("write") /\ Before("write", "browser"))
    /\ Has("loop") => (Has("write") /\ Before("write", "loop"))
    /\ (Has("loop") /\ Has("browser")) => Before("browser", "loop")
    /\ Has("browser") => config.open_browser
    /\ info_file # <<>> => success = "True"

C17_Witness ==
    /\ events = <<"bind", "write", "browser", "loop">>
    /\ pc = "ioloop"
    /\ info_file = <<server_info>>

\* the phases of initialize() that come before init_signal has returned
BeforeSignals == pc \in {"init_webapp", "listen", "init_signal"}

\* C18 as stated: once a bind has been attempted the terminate handler is installed,
\* and so is the interrupt handler where the platform has one.
C18_WiredBeforeBind ==
    attempts >= 1 =>
        /\ sigterm = "signal_stop"
        /\ ~config.win => sigint # "default"

\* C18 amended: signal wiring follows the bind step. Through the bind loop both
\* signals keep their default disposition, so a SIGINT there raises KeyboardInterrupt
\* and a SIGTERM kills the process; from the return of init_signal on, the terminate
\* handler is installed, and the interrupt handler too where the platform has one.
C18_WiredAfterBind ==
    /\ [](BeforeSignals => (sigint = "default" /\ sigterm = "default"))
    /\ []((pc \in {"write_info", "open_browser", "ioloop_start", "ioloop"}) =>
             /\ sigterm = "signal_stop"
             /\ ~config.win => sigint # "default")
    /\ [][(BeforeSignals /\ nint' = nint + 1) =>
             (pc' = "raised" /\ dialogs' = dialogs /\ ~stopped')]_vars
    /\ [][(BeforeSignals /\ nterm' = nterm + 1) =>
             (pc' = "killed" /\ ~stopped')]_vars

C18_Witness ==
    /\ pc = "raised"
    /\ nint = 1 /\ nterm = 0
    /\ attempts = 1 /\ success # "True"
    /\ n_inuse = 1
    /\ sigint = "default"
    /\ ~config.win

\* C19: a failed write of the info file ends the process with an error; no browser
\* is launched, the loop is not entered and no file has been written.
C19_WriteFailureFatal ==
    Has("write_error") =>
        /\ pc = "raised"
        /\ exit_status = "nonzero"
        /\ ~Has("browser") /\ ~Has("loop") /\ ~Has("write")
        /\ info_file = <<>>

C19_Witness ==
    /\ Has("write_error")
    /\ config.open_browser
    /\ pc = "raised"
    /\ success = "True"

\* a step of a _confirm_exit thread: its select returns, or it decides on what it read
DialogStep ==
    \/ (dialogs' = dialogs - 1 /\ Len(dialog_read') = Len(dialog_read) + 1)
    \/ (dialog_read # <<>> /\ dialog_read' = Tail(dialog_read) /\ dialogs' = dialogs)

\* C20: a step of the dialog thread leaves every signal handler as it was, and a
\* decline only adds one callback; the SIGINT handler goes back to _handle_sigint
\* only in a step of the loop that takes a callback off the queue.
C20_RestoreOnMainContext ==
    /\ [][DialogStep => UNCHANGED sigvars]_vars
    /\ [][(DialogStep /\ callbacks' # callbacks) =>
             (callbacks' = callbacks + 1 /\ stopped' = stopped)]_vars
    /\ [][(sigint = "signal_stop" /\ sigint' = "handle_sigint") =>
             (pc = "ioloop" /\ callbacks > 0 /\ callbacks' = callbacks - 1
                /\ dialogs' = dialogs /\ dialog_read' = dialog_read)]_vars

C20_Witness ==
    /\ sigint = "handle_sigint"
    /\ nint = 1 /\ nterm = 0
    /\ ntimeout = 0
    /\ callbacks = 0 /\ dialogs = 0 /\ dialog_read = <<>>
    /\ ~stopped
    /\ pc = "ioloop"

\* C21: self.port changes only on a successful bind. Until a bind succeeds it is the
\* configured port, whatever attempts have failed; the successful attempt sets it to
\* the candidate it listened on; nothing changes it afterwards; and the port of the
\* written record, alone and inside its url, is that port.
C21_PortOnlyOnSuccess ==
    /\ [](success # "True" => port = config.port)
    /\ [][(attempts' = attempts + 1 /\ success' # "True") => port' = port]_vars
    /\ [][(success # "True" /\ success' = "True") =>
             (attempts' = attempts + 1 /\ port' = cand')]_vars
    /\ [][success = "True" => (success' = "True" /\ port' = port)]_vars
    /\ [](info_file # <<>> =>
             /\ success = "True"
             /\ info_file[1].port = port
             /\ info_file[1].url.port = port)

C21_Witness ==
    /\ info_file # <<>>
    /\ n_inuse = 1 /\ attempts = 2
    /\ port = cand /\ port # config.port
    /\ info_file[1].url.port = port

\* C22: shutdown_all and the removal of the info file run only after a completed
\* write of the info file and an entry into the try around the loop; a run that ends
\* in the bind loop or in the write has executed neither.
C22_ShutdownOnlyAfterWrite ==
    /\ (Has("shutdown_all") \/ Has("remove")) => (Has("write") /\ Has("loop"))
    /\ Has("write_error") => (~Has("shutdown_all") /\ ~Has("remove"))
    /\ (~alive /\ success # "True") => (~Has("shutdown_all") /\ ~Has("remove"))
    /\ pc \in {"cleanup_kernels", "remove_info", "done"} => Has("write")

C22_Witness ==
    /\ pc = "exited" /\ exit_status = "nonzero"
    /\ success # "True"
    /\ n_eacces = 1 /\ n_inuse = 1
    /\ events = <<>>
    /\ info_file = <<>>

====
